---- MODULE Spec2Model ----
(***************************************************************************)
(* Model of ShadowPluginWarden's publish workflow (src/github_utils.py):   *)
(* any_plugin (the registry merge), get_pr_file and create_pr, run by      *)
(* several webhook deliveries at once against one GitHub repository.       *)
(*                                                                         *)
(* The repository host is modelled by what its API does for the calls the  *)
(* code makes: a branch is a ref to a tree (plugin.json plus the logo      *)
(* files); a file's sha is the hash of its content; update_file on a       *)
(* branch is accepted only when the sha handed in is the sha of the file   *)
(* on THAT branch; create_file is rejected when the path exists on the     *)
(* branch; merging a pull request is a three-way merge of the head into    *)
(* the base branch and is refused on a conflict.  Every remote call may    *)
(* also fail for a reason of the host's own (network, rate limit).         *)
(***************************************************************************)
EXTENDS Integers, Sequences, FiniteSets, TLC

\* ------------------------------------------------------------------ bounds
MaxTime == 2        \* seconds the clock can show
MaxLen == 3         \* longest registry the merge is tried on (SpecMerge)
MaxAssets == 3      \* longest asset list classified (SpecClassify)
MaxDeliveries == 3  \* webhook deliveries followed (SpecWebhook)

\* Two webhook deliveries, each one run of create_pr, at the same time.
Runs == {1, 2}
Times == 1..MaxTime

source_branch == "main"

Ids == {"x", "y"}
Versions == {"1", "2"}

\* ------------------------------------------------------------- data model
NoLogo == [branch |-> "none", path |-> "none"]

\* The raw-content URL of line 99: host and repository are fixed, the branch
\* segment is the literal "main", the path is {plugin_id}/{logo_name}.
LogoUrl(plugin_id, logo_name) ==
    [branch |-> "main", path |-> <<plugin_id, logo_name>>]

\* A release asset as the webhook payload carries it: the fields the code
\* branches on, the download URL, and one field (uploader) standing for the
\* payload fields the reduced form drops.  size, created_at and updated_at are
\* copied through like id and are left out.
RawAsset(id, name, content_type) ==
    [id |-> id, name |-> name, content_type |-> content_type,
     browser_download_url |-> <<"download", id>>, uploader |-> "bot"]

pj == RawAsset(1, "plugin.json", "application/json")
png == RawAsset(2, "icon.png", "image/png")
zip == RawAsset(3, "app.zip", "application/zip")

None == <<"None">>

\* str.startswith("image/") on the content types of the model.
StartsWithImage(content_type) == content_type \in {"image/png", "image/jpeg"}

\* The manifest documents a release's plugin.json URL can answer with.
Manifests == [Id : Ids, Version : Versions]

\* An entry of the registry: the manifest's fields plus Assets and Logo.
Entry(m, assets, logo) ==
    [Id |-> m.Id, Version |-> m.Version, Assets |-> assets, Logo |-> logo]

\* ------------------------------------------------------------- any_plugin
\* Mutants of the loop body: the match that does not set the flag, and the
\* match that keeps the old entry beside the new one (a missing else).
AnyPluginStepNoFlag(acc, plugin, plugin_json) ==
    IF plugin.Id = plugin_json.Id
    THEN [flag |-> acc.flag, mew |-> Append(acc.mew, plugin_json)]
    ELSE [flag |-> acc.flag, mew |-> Append(acc.mew, plugin)]

AnyPluginStepKeepsOld(acc, plugin, plugin_json) ==
    IF plugin.Id = plugin_json.Id
    THEN [flag |-> TRUE, mew |-> Append(Append(acc.mew, plugin_json), plugin)]
    ELSE [flag |-> acc.flag, mew |-> Append(acc.mew, plugin)]

\* Lines 22-27: the loop body for entry i, on the accumulator (flag, mew).
AnyPluginStep(acc, plugin, plugin_json) ==
    IF plugin.Id = plugin_json.Id
    THEN [flag |-> TRUE, mew |-> Append(acc.mew, plugin_json)]
    ELSE [flag |-> acc.flag, mew |-> Append(acc.mew, plugin)]

RECURSIVE AnyPluginLoop(_, _, _, _)
AnyPluginLoop(raw_plugin_json, plugin_json, i, acc) ==
    IF i > Len(raw_plugin_json) THEN acc
    ELSE AnyPluginLoop(raw_plugin_json, plugin_json, i + 1,
                       AnyPluginStep(acc, raw_plugin_json[i], plugin_json))

\* Mutants of the tail: the new entry put first, and the append done
\* whether or not an entry matched.
AnyPluginTailPrepends(acc, plugin_json) ==
    IF ~acc.flag THEN [acc EXCEPT !.mew = <<plugin_json>> \o acc.mew] ELSE acc

AnyPluginTailAlways(acc, plugin_json) ==
    [acc EXCEPT !.mew = Append(acc.mew, plugin_json)]

\* Lines 28-29: the append when nothing matched.
AnyPluginTail(acc, plugin_json) ==
    IF ~acc.flag THEN [acc EXCEPT !.mew = Append(acc.mew, plugin_json)] ELSE acc

any_plugin(raw_plugin_json, plugin_json) ==
    AnyPluginTail(AnyPluginLoop(raw_plugin_json, plugin_json, 1,
                                [flag |-> FALSE, mew |-> <<>>]),
                  plugin_json)

\* ---------------------------------------------------- create_pr, lines 42-61
ReducedAsset(asset) ==
    [id |-> asset.id, name |-> asset.name, content_type |-> asset.content_type,
     browser_download_url |-> asset.browser_download_url]

\* Mutant: the image asset is also kept among the plain assets (an if
\* where the elif stands).
ClassifyStepKeepsLogo(acc, asset) ==
    IF StartsWithImage(asset.content_type)
    THEN [acc EXCEPT !.logo_url = asset.browser_download_url,
                     !.logo_name = asset.name,
                     !.new_assets = Append(@, ReducedAsset(asset))]
    ELSE IF asset.name = "plugin.json"
    THEN [acc EXCEPT !.plugin_json_url = asset.browser_download_url]
    ELSE [acc EXCEPT !.new_assets = Append(@, ReducedAsset(asset))]

\* Lines 47-61: the loop body for one asset.
ClassifyStep(acc, asset) ==
    IF StartsWithImage(asset.content_type)
    THEN [acc EXCEPT !.logo_url = asset.browser_download_url,
                     !.logo_name = asset.name]
    ELSE IF asset.name = "plugin.json"
    THEN [acc EXCEPT !.plugin_json_url = asset.browser_download_url]
    ELSE [acc EXCEPT !.new_assets = Append(@, ReducedAsset(asset))]

RECURSIVE ClassifyLoop(_, _, _)
ClassifyLoop(assets, i, acc) ==
    IF i > Len(assets) THEN acc
    ELSE ClassifyLoop(assets, i + 1, ClassifyStep(acc, assets[i]))

Classify(assets) ==
    ClassifyLoop(assets, 1,
                 [plugin_json_url |-> None, logo_url |-> None,
                  logo_name |-> "None", new_assets |-> <<>>])

\* ------------------------------------------------------ the repository host
\* requests.get(logo_url).content (line 81): the bytes the release's logo URL
\* answers with.  No raise_for_status follows, so the body of an error
\* response (ok = FALSE) is taken as the logo like any other.
NoFile == [Id |-> "none", Version |-> "none", ok |-> FALSE]
LogoBytes(plugin_json, ok) ==
    [Id |-> plugin_json.Id, Version |-> plugin_json.Version, ok |-> ok]

LogoNames == {"icon.png"}
LogoPaths == Ids \X LogoNames

\* A file's sha (ContentFile.sha) is the hash of its content.
Sha(content) == <<"sha", content>>

\* The tree a branch points at: plugin.json and the logo files.
Tree(reg, logos) == [reg |-> reg, logos |-> logos]
NoTree == Tree(<<>>, [p \in LogoPaths |-> NoFile])
NoBranch == [exists |-> FALSE, base |-> NoTree, head |-> NoTree, owner |-> 0]

\* Three-way merge of one value: the side that changed it wins; both sides
\* changing it differently is a conflict.
Conflicts3(base, ours, theirs) == ours # base /\ theirs # base /\ ours # theirs
Pick3(base, ours, theirs) == IF theirs = base THEN ours ELSE theirs

\* Three-way merge of plugin.json.  The code only replaces entries in place or
\* appends, so ours and theirs both extend base position by position; what
\* each side appended is one region of the file.
RegTail(base, reg) == SubSeq(reg, Len(base) + 1, Len(reg))
RegConflicts(base, ours, theirs) ==
    \/ \E i \in 1..Len(base) : Conflicts3(base[i], ours[i], theirs[i])
    \/ Conflicts3(<<>>, RegTail(base, ours), RegTail(base, theirs))
RegMerge3(base, ours, theirs) ==
    [i \in 1..Len(base) |-> Pick3(base[i], ours[i], theirs[i])]
        \o Pick3(<<>>, RegTail(base, ours), RegTail(base, theirs))

TreeConflicts(base, ours, theirs) ==
    \/ RegConflicts(base.reg, ours.reg, theirs.reg)
    \/ \E p \in LogoPaths : Conflicts3(base.logos[p], ours.logos[p], theirs.logos[p])
TreeMerge3(base, ours, theirs) ==
    Tree(RegMerge3(base.reg, ours.reg, theirs.reg),
         [p \in LogoPaths |-> Pick3(base.logos[p], ours.logos[p], theirs.logos[p])])

\* ------------------------------------------------------------------- state
VARIABLES
    now,        \* int(time.time()): the clock, in seconds
    main,       \* the tree at the tip of the default branch
    branches,   \* refs/heads/<name> for every work-branch name
    pulls,      \* the pull request each run opened
    run,        \* each run of create_pr: its position and its locals
    m_raw,      \* SpecMerge: the registry handed to any_plugin
    m_new,      \* SpecMerge: the new entry handed to any_plugin
    m_out,      \* SpecMerge: any_plugin's (flag, mew)
    m_again,    \* SpecMerge: any_plugin of mew and the same entry
    m_pc,       \* SpecMerge: how many merges have been applied
    c_assets,   \* SpecClassify: the asset list handed to create_pr
    c_out,      \* SpecClassify: what lines 42-61 leave in the locals
    c_pc,       \* SpecClassify: whether the loop has run
    w_log,      \* SpecWebhook: the deliveries so far, each with its answer
    w_saved     \* SpecWebhook: the payloads handed to save_releases_to_db

repoVars == <<main, branches, pulls>>
mergeVars == <<m_raw, m_new, m_out, m_again, m_pc>>
classifyVars == <<c_assets, c_out, c_pc>>
hookVars == <<w_log, w_saved>>
workflowVars == <<now, main, branches, pulls, run>>
vars == <<now, main, branches, pulls, run, m_raw, m_new, m_out, m_again, m_pc,
          c_assets, c_out, c_pc, w_log, w_saved>>

NoEntry == Entry([Id |-> "none", Version |-> "none"], <<>>, NoLogo)
NoPull == [state |-> "none", head |-> 0, base |-> "none", title |-> "none"]
NoResult == [flag |-> FALSE, mew |-> <<>>]

\* The locals of create_pr before its first line has run.
NewRun ==
    [pc |-> "idle", failed_at |-> "none", rejected |-> FALSE, writes |-> <<>>,
     plugin_json_url |-> None, logo_url |-> None, logo_name |-> "None",
     new_assets |-> <<>>, new_branch |-> 0,
     plugin_file_sha |-> Sha(<<>>), raw_plugin_json |-> <<>>,
     plugin_json |-> NoEntry, source_sha |-> NoTree,
     logo_message |-> "none", logo_content |-> NoFile,
     logo_flag |-> FALSE, logo_file_sha |-> Sha(NoFile),
     flag |-> FALSE, mew_plugin_json |-> <<>>, commit_message |-> "none"]

\* The release asset lists the webhook delivers in the workflow model.
Releases == {<<zip>>, <<pj>>, <<pj, png, zip>>}

\* Registries the default branch can hold when the service starts: entries of
\* an earlier version "0", one entry per Id at most.
Old(id) == Entry([Id |-> id, Version |-> "0"], <<>>, NoLogo)
InitialRegistries ==
    {<<>>, <<Old("x")>>, <<Old("x"), Old("y")>>}

\* Mutant: the missing manifest source is not checked.
AfterClassifyNoSkip(c) == "get_contents"

\* Line 62: without a manifest source the run is a skip.
AfterClassify(c) ==
    IF c.plugin_json_url = None THEN "skipped" ELSE "get_contents"

\* Mutants of the statement order: the pull request opened before the
\* manifest commit, and the branch deleted before the merge.
FollowingPullFirst(step, logo_url) ==
    CASE step = "get_contents" -> "get_pr_file"
      [] step = "get_pr_file" -> "get_git_ref"
      [] step = "get_git_ref" -> "create_git_ref"
      [] step = "create_git_ref" ->
             IF logo_url # None THEN "logo_download" ELSE "create_pull"
      [] step = "logo_download" -> "logo_probe"
      [] step = "logo_probe" -> "logo_write"
      [] step = "logo_write" -> "create_pull"
      [] step = "create_pull" -> "update_file"
      [] step = "update_file" -> "merge"
      [] step = "merge" -> "delete"
      [] step = "delete" -> "done"

FollowingDeleteFirst(step, logo_url) ==
    CASE step = "get_contents" -> "get_pr_file"
      [] step = "get_pr_file" -> "get_git_ref"
      [] step = "get_git_ref" -> "create_git_ref"
      [] step = "create_git_ref" ->
             IF logo_url # None THEN "logo_download" ELSE "update_file"
      [] step = "logo_download" -> "logo_probe"
      [] step = "logo_probe" -> "logo_write"
      [] step = "logo_write" -> "update_file"
      [] step = "update_file" -> "create_pull"
      [] step = "create_pull" -> "delete"
      [] step = "delete" -> "merge"
      [] step = "merge" -> "done"

\* Mutant: the work branch created before the new entry is fetched.
FollowingBranchFirst(step, logo_url) ==
    CASE step = "get_contents" -> "get_git_ref"
      [] step = "get_git_ref" -> "create_git_ref"
      [] step = "create_git_ref" -> "get_pr_file"
      [] step = "get_pr_file" ->
             IF logo_url # None THEN "logo_download" ELSE "update_file"
      [] step = "logo_download" -> "logo_probe"
      [] step = "logo_probe" -> "logo_write"
      [] step = "logo_write" -> "update_file"
      [] step = "update_file" -> "create_pull"
      [] step = "create_pull" -> "merge"
      [] step = "merge" -> "delete"
      [] step = "delete" -> "done"

\* Mutant: the run ends at the merge and leaves its branch.
FollowingNoDelete(step, logo_url) ==
    CASE step = "get_contents" -> "get_pr_file"
      [] step = "get_pr_file" -> "get_git_ref"
      [] step = "get_git_ref" -> "create_git_ref"
      [] step = "create_git_ref" ->
             IF logo_url # None THEN "logo_download" ELSE "update_file"
      [] step = "logo_download" -> "logo_probe"
      [] step = "logo_probe" -> "logo_write"
      [] step = "logo_write" -> "update_file"
      [] step = "update_file" -> "create_pull"
      [] step = "create_pull" -> "merge"
      [] step = "merge" -> "done"
      [] step = "delete" -> "done"

\* The order of the statements of lines 67-119: the step that follows each
\* remote call once it has returned.
Following(step, logo_url) ==
    CASE step = "get_contents" -> "get_pr_file"
      [] step = "get_pr_file" -> "get_git_ref"
      [] step = "get_git_ref" -> "create_git_ref"
      [] step = "create_git_ref" ->
             IF logo_url # None THEN "logo_download" ELSE "update_file"
      [] step = "logo_download" -> "logo_probe"
      [] step = "logo_probe" -> "logo_write"
      [] step = "logo_write" -> "update_file"
      [] step = "update_file" -> "create_pull"
      [] step = "create_pull" -> "merge"
      [] step = "merge" -> "delete"
      [] step = "delete" -> "done"

Then(r, step) == Following(step, run[r].logo_url)

\* Mutant: the rejected manifest commit is caught and the run goes on.
OnExceptionSwallowed(step) ==
    IF step = "update_file" THEN "create_pull" ELSE "failed"

\* An exception of a remote call: outside lines 83-89 nothing catches it, it
\* leaves create_pr and the run is over.
OnException(step) == "failed"

Raise(r, step, rejected) ==
    run' = [run EXCEPT ![r].pc = OnException(step), ![r].failed_at = step,
                       ![r].rejected = rejected]

\* ------------------------------------------------------ create_pr, by step
\* Lines 41-66: classify the assets; skip without a manifest source, else
\* take the branch name from the clock.
Start(r) ==
    /\ run[r].pc = "idle"
    /\ \E assets \in Releases :
         LET c == Classify(assets) IN
         run' = [run EXCEPT
                   ![r].plugin_json_url = c.plugin_json_url,
                   ![r].logo_url = c.logo_url,
                   ![r].logo_name = c.logo_name,
                   ![r].new_assets = c.new_assets,
                   ![r].new_branch =
                       IF c.plugin_json_url = None THEN 0 ELSE now,
                   ![r].pc = AfterClassify(c)]
    /\ UNCHANGED <<now, repoVars, mergeVars, classifyVars, hookVars>>

\* The clock moves on by a second.  Only line 65 reads it, so its ticks are
\* followed while a delivery is still to come.
Tick ==
    /\ now < MaxTime
    /\ \E r \in Runs : run[r].pc = "idle"
    /\ now' = now + 1
    /\ UNCHANGED <<repoVars, run, mergeVars, classifyVars, hookVars>>

\* Lines 67-69: get_repo, get_contents("plugin.json") on the default branch.
GetContents(r) ==
    /\ run[r].pc = "get_contents"
    /\ \/ run' = [run EXCEPT ![r].plugin_file_sha = Sha(main.reg),
                              ![r].raw_plugin_json = main.reg,
                              ![r].pc = Then(r, "get_contents")]
       \/ Raise(r, "get_contents", FALSE)
    /\ UNCHANGED <<now, repoVars, mergeVars, classifyVars, hookVars>>

\* Lines 33-38 and 70-72: get_pr_file, then the Id and Version lookups.
get_pr_file(manifest, assets) == Entry(manifest, assets, NoLogo)

GetPrFile(r) ==
    /\ run[r].pc = "get_pr_file"
    /\ \/ \E manifest \in Manifests :
            run' = [run EXCEPT
                      ![r].plugin_json = get_pr_file(manifest, run[r].new_assets),
                      ![r].pc = Then(r, "get_pr_file")]
       \/ Raise(r, "get_pr_file", FALSE)
    /\ UNCHANGED <<now, repoVars, mergeVars, classifyVars, hookVars>>

\* Line 73: the commit the default branch points at now.
GetGitRef(r) ==
    /\ run[r].pc = "get_git_ref"
    /\ \/ run' = [run EXCEPT ![r].source_sha = main,
                              ![r].pc = Then(r, "get_git_ref")]
       \/ Raise(r, "get_git_ref", FALSE)
    /\ UNCHANGED <<now, repoVars, mergeVars, classifyVars, hookVars>>

\* Line 74: create_git_ref; the host refuses a name that exists.

CreateGitRef(r) ==
    /\ run[r].pc = "create_git_ref"
    /\ \/ /\ ~branches[run[r].new_branch].exists
          /\ branches' = [branches EXCEPT ![run[r].new_branch] =
                            [exists |-> TRUE, base |-> run[r].source_sha,
                             head |-> run[r].source_sha, owner |-> r]]
          /\ run' = [run EXCEPT ![r].writes = Append(@, "create_git_ref"),
                                ![r].pc = Then(r, "create_git_ref")]
       \/ /\ Raise(r, "create_git_ref", branches[run[r].new_branch].exists)
          /\ UNCHANGED branches
    /\ UNCHANGED <<now, main, pulls, mergeVars, classifyVars, hookVars>>

\* Mutant: the verbs of the message exchanged.
VerbInverted(flag) == IF flag THEN "Create" ELSE "Update"

\* The f-strings of lines 80 and 101.
Verb(flag) == IF flag THEN "Update" ELSE "Create"
Message(flag, what, plugin_json) ==
    <<Verb(flag), what, plugin_json.Id, "v", plugin_json.Version>>

logo_path(r) == <<run[r].plugin_json.Id, run[r].logo_name>>

\* Lines 76-82: logo_flag = False, then the logo_data dictionary: its message
\* is formatted here, with logo_flag as it is now, and its content is
\* downloaded (an exception of requests.get ends the run).
LogoDownload(r) ==
    /\ run[r].pc = "logo_download"
    /\ \/ \E ok \in BOOLEAN :
            run' = [run EXCEPT
                      ![r].logo_flag = FALSE,
                      ![r].logo_message =
                          Message(FALSE, "Plugin Logo:", run[r].plugin_json),
                      ![r].logo_content = LogoBytes(run[r].plugin_json, ok),
                      ![r].pc = Then(r, "logo_download")]
       \/ Raise(r, "logo_download", FALSE)
    /\ UNCHANGED <<now, repoVars, mergeVars, classifyVars, hookVars>>

\* Lines 83-89: get_contents(logo_path), on the default branch.  Every
\* exception is swallowed: GithubException (the 404 of an absent file, or any
\* other answer of the host) by pass, the rest by the log: the run goes on
\* with logo_flag as it was, whether the file is absent or the call failed.
LogoProbe(r) ==
    /\ run[r].pc = "logo_probe"
    /\ \/ /\ main.logos[logo_path(r)] # NoFile
          /\ run' = [run EXCEPT
                       ![r].logo_file_sha = Sha(main.logos[logo_path(r)]),
                       ![r].logo_flag = TRUE,
                       ![r].pc = Then(r, "logo_probe")]
       \/ run' = [run EXCEPT ![r].pc = Then(r, "logo_probe")]
    /\ UNCHANGED <<now, repoVars, mergeVars, classifyVars, hookVars>>

\* The host's answer to update_file(path, sha, branch) and create_file.
UpdateAccepted(branch, file, sha) ==
    branches[branch].exists /\ Sha(file) = sha
CreateAccepted(branch, file) ==
    branches[branch].exists /\ file = NoFile

\* Lines 91-99: update_file or create_file on the work branch, then the
\* Logo field of the new entry.
LogoWriteAccepted(r) ==
    LET file == branches[run[r].new_branch].head.logos[logo_path(r)] IN
    IF run[r].logo_flag
    THEN UpdateAccepted(run[r].new_branch, file, run[r].logo_file_sha)
    ELSE CreateAccepted(run[r].new_branch, file)

LogoWrite(r) ==
    /\ run[r].pc = "logo_write"
    /\ \/ /\ LogoWriteAccepted(r)
          /\ branches' = [branches EXCEPT
                 ![run[r].new_branch].head.logos[logo_path(r)] =
                     run[r].logo_content]
          /\ run' = [run EXCEPT
                       ![r].writes = Append(@, "logo_write"),
                       ![r].plugin_json.Logo =
                           LogoUrl(run[r].plugin_json.Id, run[r].logo_name),
                       ![r].pc = Then(r, "logo_write")]
       \/ /\ Raise(r, "logo_write", ~LogoWriteAccepted(r))
          /\ UNCHANGED branches
    /\ UNCHANGED <<now, main, pulls, mergeVars, classifyVars, hookVars>>

\* Mutant: the commit made without a check of the sha.
CommitUnchecked(r) == branches[run[r].new_branch].exists

\* Lines 100-106: the merge, the commit message, and update_file of
\* plugin.json on the work branch with the sha of the fetch of line 68.
CommitAccepted(r) ==
    UpdateAccepted(run[r].new_branch, branches[run[r].new_branch].head.reg,
                   run[r].plugin_file_sha)

\* Mutant: the manifest commit made on the default branch.
CommitToDefault(r) ==
    LET res == any_plugin(run[r].raw_plugin_json, run[r].plugin_json)
        msg == Message(res.flag, "Plugin:", run[r].plugin_json)
        merged == [run EXCEPT ![r].flag = res.flag,
                              ![r].mew_plugin_json = res.mew,
                              ![r].commit_message = msg]
    IN
    /\ run[r].pc = "update_file"
    /\ \/ /\ Sha(main.reg) = run[r].plugin_file_sha
          /\ main' = [main EXCEPT !.reg = res.mew]
          /\ run' = [merged EXCEPT ![r].writes = Append(@, "update_file"),
                                   ![r].pc = Then(r, "update_file")]
       \/ /\ run' = [merged EXCEPT ![r].pc = OnException("update_file"),
                                   ![r].failed_at = "update_file",
                                   ![r].rejected =
                                       Sha(main.reg) # run[r].plugin_file_sha]
          /\ UNCHANGED main
    /\ UNCHANGED <<now, branches, pulls, mergeVars, classifyVars, hookVars>>

Commit(r) ==
    LET res == any_plugin(run[r].raw_plugin_json, run[r].plugin_json)
        msg == Message(res.flag, "Plugin:", run[r].plugin_json)
        merged == [run EXCEPT ![r].flag = res.flag,
                              ![r].mew_plugin_json = res.mew,
                              ![r].commit_message = msg]
    IN
    /\ run[r].pc = "update_file"
    /\ \/ /\ CommitAccepted(r)
          /\ branches' = [branches EXCEPT
                            ![run[r].new_branch].head.reg = res.mew]
          /\ run' = [merged EXCEPT ![r].writes = Append(@, "update_file"),
                                   ![r].pc = Then(r, "update_file")]
       \/ /\ run' = [merged EXCEPT ![r].pc = OnException("update_file"),
                                   ![r].failed_at = "update_file",
                                   ![r].rejected = ~CommitAccepted(r)]
          /\ UNCHANGED branches
    /\ UNCHANGED <<now, main, pulls, mergeVars, classifyVars, hookVars>>

\* Lines 109-116: create_pull from the work branch into the default branch.
CreatePull(r) ==
    /\ run[r].pc = "create_pull"
    /\ \/ /\ branches[run[r].new_branch].exists
          /\ pulls' = [pulls EXCEPT ![r] =
                         [state |-> "open", head |-> run[r].new_branch,
                          base |-> source_branch,
                          title |-> run[r].commit_message]]
          /\ run' = [run EXCEPT ![r].writes = Append(@, "create_pull"),
                                ![r].pc = Then(r, "create_pull")]
       \/ /\ Raise(r, "create_pull", ~branches[run[r].new_branch].exists)
          /\ UNCHANGED pulls
    /\ UNCHANGED <<now, main, branches, mergeVars, classifyVars, hookVars>>

\* Mutant: the head branch's tree put on the default branch as it is.
MergeOverwrites(base, ours, theirs) == theirs

\* Mutant: the merge brings plugin.json alone, without the logo files.
MergeRegistryOnly(base, ours, theirs) ==
    Tree(RegMerge3(base.reg, ours.reg, theirs.reg), ours.logos)

\* What pr.merge() leaves on the default branch: the three-way merge of the
\* head branch into it, from the commit the branch was created at.
MergeResult(base, ours, theirs) == TreeMerge3(base, ours, theirs)

\* Lines 117-118: pr.merge(); the host refuses a head that conflicts.
Mergeable(r) ==
    LET b == branches[pulls[r].head] IN
    /\ pulls[r].state = "open"
    /\ b.exists
    /\ ~TreeConflicts(b.base, main, b.head)

MergePull(r) ==
    /\ run[r].pc = "merge"
    /\ \/ /\ Mergeable(r)
          /\ main' = MergeResult(branches[pulls[r].head].base, main,
                                 branches[pulls[r].head].head)
          /\ pulls' = [pulls EXCEPT ![r].state = "merged"]
          /\ run' = [run EXCEPT ![r].writes = Append(@, "merge"),
                                ![r].pc = Then(r, "merge")]
       \/ /\ Raise(r, "merge", ~Mergeable(r))
          /\ UNCHANGED <<main, pulls>>
    /\ UNCHANGED <<now, branches, mergeVars, classifyVars, hookVars>>

\* Line 119: new_branch_ref.delete().
DeleteRef(r) ==
    /\ run[r].pc = "delete"
    /\ \/ /\ branches[run[r].new_branch].exists
          /\ branches' = [branches EXCEPT ![run[r].new_branch] = NoBranch]
          /\ run' = [run EXCEPT ![r].writes = Append(@, "delete"),
                                ![r].pc = Then(r, "delete")]
       \/ /\ Raise(r, "delete", ~branches[run[r].new_branch].exists)
          /\ UNCHANGED branches
    /\ UNCHANGED <<now, main, pulls, mergeVars, classifyVars, hookVars>>

\* ------------------------------------------------------- the specifications
MergeIdle ==
    /\ m_raw = <<>>
    /\ m_new = NoEntry
    /\ m_out = NoResult
    /\ m_again = NoResult
    /\ m_pc = 0

ClassifyIdle ==
    /\ c_assets = <<>>
    /\ c_out = Classify(<<>>)
    /\ c_pc = 0

HookIdle ==
    /\ w_log = <<>>
    /\ w_saved = <<>>

Init ==
    /\ now = 1
    /\ main \in {Tree(reg, [p \in LogoPaths |-> NoFile]) : reg \in InitialRegistries}
    /\ branches = [t \in Times |-> NoBranch]
    /\ pulls = [r \in Runs |-> NoPull]
    /\ run = [r \in Runs |-> NewRun]
    /\ MergeIdle
    /\ ClassifyIdle
    /\ HookIdle

Next ==
    \/ Tick
    \/ \E r \in Runs :
         \/ Start(r)
         \/ GetContents(r)
         \/ GetPrFile(r)
         \/ GetGitRef(r)
         \/ CreateGitRef(r)
         \/ LogoDownload(r)
         \/ LogoProbe(r)
         \/ LogoWrite(r)
         \/ Commit(r)
         \/ CreatePull(r)
         \/ MergePull(r)
         \/ DeleteRef(r)

Spec == Init /\ [][Next]_vars

\* ----------------------------------------------- any_plugin on its own
\* Every registry of at most MaxLen entries, duplicates of an Id included,
\* and every new entry.
MergeEntries == {Entry(m, <<>>, NoLogo) : m \in Manifests}
SeqsUpTo(S, n) == UNION {[1..k -> S] : k \in 0..n}

WorkflowIdle ==
    /\ now = 1
    /\ main = NoTree
    /\ branches = [t \in Times |-> NoBranch]
    /\ pulls = [r \in Runs |-> NoPull]
    /\ run = [r \in Runs |-> NewRun]

InitMerge ==
    /\ WorkflowIdle
    /\ m_raw \in SeqsUpTo(MergeEntries, MaxLen)
    /\ m_new \in MergeEntries
    /\ m_out = NoResult
    /\ m_again = NoResult
    /\ m_pc = 0
    /\ ClassifyIdle
    /\ HookIdle

\* flag, mew = any_plugin(raw_plugin_json, plugin_json)
ApplyMerge ==
    /\ m_pc = 0
    /\ m_out' = any_plugin(m_raw, m_new)
    /\ m_pc' = 1
    /\ UNCHANGED <<workflowVars, m_raw, m_new, m_again, classifyVars, hookVars>>

\* The same entry merged into the result once more.
ApplyAgain ==
    /\ m_pc = 1
    /\ m_again' = any_plugin(m_out.mew, m_new)
    /\ m_pc' = 2
    /\ UNCHANGED <<workflowVars, m_raw, m_new, m_out, classifyVars, hookVars>>

NextMerge == ApplyMerge \/ ApplyAgain

SpecMerge == InitMerge /\ [][NextMerge]_vars

\* ------------------------------------- the asset classification on its own
\* The assets a release can carry: two named plugin.json, two images and an
\* archive.
pj2 == RawAsset(4, "plugin.json", "application/json")
jpg == RawAsset(5, "banner.jpg", "image/jpeg")
AssetPool == {pj, png, zip, pj2, jpg}

\* A release holds each of its assets once.
Distinct(assets) ==
    \A i, j \in 1..Len(assets) : assets[i] = assets[j] => i = j
AssetLists == {a \in SeqsUpTo(AssetPool, MaxAssets) : Distinct(a)}

InitClassify ==
    /\ WorkflowIdle
    /\ MergeIdle
    /\ HookIdle
    /\ c_assets \in AssetLists
    /\ c_out = Classify(<<>>)
    /\ c_pc = 0

\* Lines 42-61 on the asset list.
ApplyClassify ==
    /\ c_pc = 0
    /\ c_out' = Classify(c_assets)
    /\ c_pc' = 1
    /\ UNCHANGED <<workflowVars, mergeVars, c_assets, hookVars>>

NextClassify == ApplyClassify

SpecClassify == InitClassify /\ [][NextClassify]_vars

\* ------------------------------------------------------------------ claims
HasId(reg, id) == \E i \in 1..Len(reg) : reg[i].Id = id
UniqueIds(reg) ==
    \A i, j \in 1..Len(reg) : reg[i].Id = reg[j].Id => i = j

\* C7: any_plugin returns matched = TRUE exactly when some entry of the
\* registry has the new entry's Id, and the returned array is as long as the
\* registry when matched and one longer otherwise.
C7_MatchedAndLength ==
    m_pc >= 1 =>
        /\ m_out.flag = HasId(m_raw, m_new.Id)
        /\ Len(m_out.mew) = Len(m_raw) + (IF m_out.flag THEN 0 ELSE 1)

C7_Witness ==
    /\ m_pc >= 1
    /\ m_out.flag
    /\ Len(m_raw) = 2
    /\ m_raw[1].Id # m_raw[2].Id

\* C8: the merge keeps every entry with another Id, in content and position;
\* an entry with the new entry's Id is replaced by the new entry where it
\* stands; when none matches the new entry is the last element.
C8_OrderAndContent ==
    m_pc >= 1 =>
        /\ Len(m_out.mew) >= Len(m_raw)
        /\ \A i \in 1..Len(m_raw) :
              m_out.mew[i] = IF m_raw[i].Id = m_new.Id THEN m_new ELSE m_raw[i]
        /\ ~HasId(m_raw, m_new.Id) =>
              /\ Len(m_out.mew) = Len(m_raw) + 1
              /\ m_out.mew[Len(m_out.mew)] = m_new

C8_Witness ==
    /\ m_pc >= 1
    /\ Len(m_raw) = 2
    /\ ~HasId(m_raw, m_new.Id)
    /\ m_out.mew[3] = m_new

\* C9: merging the same entry into the result of the merge again gives the
\* same array.
C9_Idempotent ==
    m_pc = 2 => m_again.mew = m_out.mew

C9_Witness ==
    /\ m_pc = 2
    /\ ~m_out.flag
    /\ m_again.flag
    /\ Len(m_again.mew) = 3

\* C10: the merge keeps the Ids of the registry unique: the merged array of
\* a run has no two entries with one Id and exactly one entry with the new
\* entry's Id, carrying its Version; and the default-branch registry, started
\* without duplicates, never holds two entries with one Id.
Merged(r) == run[r].commit_message # "none"
C10_UniqueIds ==
    /\ UniqueIds(main.reg)
    /\ \A r \in Runs : Merged(r) =>
          /\ UniqueIds(run[r].mew_plugin_json)
          /\ \E i \in 1..Len(run[r].mew_plugin_json) :
                /\ run[r].mew_plugin_json[i].Id = run[r].plugin_json.Id
                /\ run[r].mew_plugin_json[i].Version = run[r].plugin_json.Version

C10_Witness ==
    /\ \A r \in Runs : run[r].pc = "done"
    /\ run[1].flag /\ run[1].plugin_json.Version = "2"
    /\ ~run[2].flag
    /\ Len(main.reg) = 2

\* ------------------------------------------------------ workflow claims
Wrote(r, step) == \E i \in 1..Len(run[r].writes) : run[r].writes[i] = step
OwnsBranch(r) == \E t \in Times : branches[t].exists /\ branches[t].owner = r

\* C1: a run whose asset list yields no manifest source ends as a skip, not
\* as a failure, and has written nothing on the host: no ref, no file, no
\* pull request.
C1_SkipWritesNothing ==
    \A r \in Runs :
        (run[r].pc # "idle" /\ run[r].plugin_json_url = None) =>
            /\ run[r].pc = "skipped"
            /\ run[r].failed_at = "none"
            /\ run[r].writes = <<>>
            /\ pulls[r] = NoPull
            /\ ~OwnsBranch(r)

C1_Witness ==
    /\ run[1].pc = "skipped"
    /\ run[2].pc = "done"

\* C4: a run whose manifest commit was rejected for a stale sha is over: it
\* has opened no pull request, merged none and deleted no branch.
C4_RejectedCommitAborts ==
    \A r \in Runs :
        (run[r].failed_at = "update_file" /\ run[r].rejected) =>
            /\ run[r].pc = "failed"
            /\ pulls[r] = NoPull
            /\ ~Wrote(r, "create_pull")
            /\ ~Wrote(r, "merge")
            /\ ~Wrote(r, "delete")
            /\ branches[run[r].new_branch].exists

C4_Witness ==
    \E r \in Runs :
        /\ run[r].failed_at = "update_file"
        /\ run[r].rejected
        /\ run[r].raw_plugin_json # run[r].source_sha.reg

\* C5: the writes of a run happen in the order create ref, logo write (when
\* there is a logo), manifest commit, pull request, merge, delete; each after
\* all the earlier ones, none twice.
IsPrefix(s, t) == Len(s) <= Len(t) /\ SubSeq(t, 1, Len(s)) = s
WriteOrder(logo_url) ==
    IF logo_url # None
    THEN <<"create_git_ref", "logo_write", "update_file", "create_pull",
           "merge", "delete">>
    ELSE <<"create_git_ref", "update_file", "create_pull", "merge", "delete">>

C5_WritesInOrder ==
    \A r \in Runs :
        /\ IsPrefix(run[r].writes, WriteOrder(run[r].logo_url))
        /\ run[r].pc = "done" => run[r].writes = WriteOrder(run[r].logo_url)

C5_Witness ==
    /\ run[1].pc = "done" /\ Len(run[1].writes) = 6
    /\ run[2].pc = "done" /\ Len(run[2].writes) = 5

\* C6: a run deletes its work branch only after its pull request is merged;
\* a run that failed between the branch creation and the merge leaves its
\* branch in place, and a run that succeeded leaves no branch of its own.
FailedBeforeMerged(r) ==
    /\ run[r].pc = "failed"
    /\ Wrote(r, "create_git_ref")
    /\ ~Wrote(r, "merge")

C6_DeleteOnlyAfterMerge ==
    \A r \in Runs :
        /\ Wrote(r, "delete") => pulls[r].state = "merged"
        /\ FailedBeforeMerged(r) =>
              /\ branches[run[r].new_branch].exists
              /\ branches[run[r].new_branch].owner = r
        /\ run[r].pc = "done" => ~OwnsBranch(r)

C6_Witness ==
    /\ run[1].pc = "done"
    /\ FailedBeforeMerged(2)
    /\ run[2].failed_at = "merge"
    /\ run[1].new_branch # run[2].new_branch

\* C2 as stated: whenever both runs have ended in success, the
\* default-branch registry contains the entry of each.
BothDone == \A r \in Runs : run[r].pc = "done"
InRegistry(reg, entry) == \E i \in 1..Len(reg) : reg[i] = entry

C2_Original ==
    BothDone => \A r \in Runs : InRegistry(main.reg, run[r].plugin_json)

\* C2, amended: whenever both runs have ended in success the default-branch
\* registry holds, for the Id of each run, the entry one of the runs
\* published for that Id (each run's own entry when the Ids differ); and a
\* successful merge of a run leaves every entry of the default-branch registry
\* as it was, except that it replaces the entry with the run's own Id by the
\* run's entry when the registry the run fetched already held the replaced
\* entry at that place.
PublishedFor(id) == {run[r].plugin_json : r \in {q \in Runs : run[q].plugin_json.Id = id}}

EachIdPublished ==
    BothDone =>
        \A r \in Runs : \E i \in 1..Len(main.reg) :
            /\ main.reg[i].Id = run[r].plugin_json.Id
            /\ main.reg[i] \in PublishedFor(run[r].plugin_json.Id)

MergedNow(r) == run[r].pc = "merge" /\ Wrote(r, "merge")'

Seen(r, i) ==
    /\ i <= Len(run[r].raw_plugin_json)
    /\ run[r].raw_plugin_json[i] = main.reg[i]

MergeKeepsOthers ==
    \A r \in Runs : MergedNow(r) =>
        /\ Len(main'.reg) >= Len(main.reg)
        /\ \A i \in 1..Len(main.reg) :
              \/ main'.reg[i] = main.reg[i]
              \/ /\ main.reg[i].Id = run[r].plugin_json.Id
                 /\ main'.reg[i] = run[r].plugin_json
                 /\ Seen(r, i)

C2_NoLostUpdate == []EachIdPublished /\ [][MergeKeepsOthers]_vars

\* Both runs fetched the same registry, each published another Id, and the
\* registry holds both entries.
C2_Witness ==
    /\ BothDone
    /\ run[1].raw_plugin_json = run[2].raw_plugin_json
    /\ run[1].source_sha = run[2].source_sha
    /\ run[1].plugin_json.Id # run[2].plugin_json.Id
    /\ \A r \in Runs : InRegistry(main.reg, run[r].plugin_json)

\* C3 as stated: a manifest commit is accepted only when the default branch's
\* plugin.json is, at the commit, what the run fetched.
CommittedNow(r) == run[r].pc = "update_file" /\ Wrote(r, "update_file")'

StaleAtBranch(r) ==
    /\ run[r].pc = "update_file"
    /\ run[r].source_sha.reg # run[r].raw_plugin_json

Events == {"release", "push", "ping"}

InitWebhook ==
    /\ WorkflowIdle
    /\ MergeIdle
    /\ ClassifyIdle
    /\ w_log = <<>>
    /\ w_saved = <<>>

\* Lines 48-51: a delivery of another event returns "skip".
DeliverOther ==
    /\ Len(w_log) < MaxDeliveries
    /\ \E event \in Events \ {"release"} :
         w_log' = Append(w_log, [event |-> event, answer |-> "skip"])
    /\ UNCHANGED <<workflowVars, mergeVars, classifyVars, w_saved>>

\* Lines 52-55: a release delivery hands the payload's release to
\* save_releases_to_db and returns "success"; an exception on the way (the
\* payload, the database) is the framework's error answer.  No line of the
\* handler calls create_pr.
DeliverRelease ==
    /\ Len(w_log) < MaxDeliveries
    /\ \/ \E assets \in Releases :
            /\ w_saved' = Append(w_saved, assets)
            /\ w_log' = Append(w_log, [event |-> "release", answer |-> "success"])
       \/ /\ w_log' = Append(w_log, [event |-> "release", answer |-> "error"])
          /\ UNCHANGED w_saved
    /\ UNCHANGED <<workflowVars, mergeVars, classifyVars>>

NextWebhook == DeliverOther \/ DeliverRelease

SpecWebhook == InitWebhook /\ [][NextWebhook]_vars

\* C16: every delivery of a release event starts exactly one run of
\* create_pr, and a delivery of another event is skipped without side
\* effects.
ReleaseDeliveries == {i \in 1..Len(w_log) : w_log[i].event = "release"}
StartedRuns == {r \in Runs : run[r].pc # "idle"}

C16_ReleaseStartsOneRun ==
    /\ Cardinality(ReleaseDeliveries) <= Cardinality(Runs) =>
          Cardinality(StartedRuns) = Cardinality(ReleaseDeliveries)
    /\ \A i \in 1..Len(w_log) :
          w_log[i].event # "release" => w_log[i].answer = "skip"
    /\ Len(w_saved) <= Cardinality(ReleaseDeliveries)

\* C14: the manifest commit message and the pull-request title of a run are
\* one string; its verb is "Update" exactly when the registry the run merged
\* into held an entry with the new entry's Id, "Create" otherwise; and the
\* flag chooses no step: after the merge a run goes on to the pull request,
\* the merge and the delete, writing in the one order, whatever the flag.
AfterCommit == {"create_pull", "merge", "delete", "done"}

C14_TitleFollowsFlag ==
    \A r \in Runs :
        /\ pulls[r].state # "none" => pulls[r].title = run[r].commit_message
        /\ Merged(r) =>
              /\ run[r].flag = HasId(run[r].raw_plugin_json, run[r].plugin_json.Id)
              /\ run[r].commit_message[1] =
                    IF HasId(run[r].raw_plugin_json, run[r].plugin_json.Id)
                    THEN "Update" ELSE "Create"
              /\ run[r].failed_at = "none" => run[r].pc \in AfterCommit
        /\ run[r].pc = "done" => run[r].writes = WriteOrder(run[r].logo_url)

C14_Witness ==
    /\ run[1].pc = "done" /\ run[1].flag /\ pulls[1].title[1] = "Update"
    /\ run[2].pc = "done" /\ ~run[2].flag /\ pulls[2].title[1] = "Create"
    /\ run[1].logo_url = run[2].logo_url

\* C15: a run that failed at the fetch of the registry or at the fetch of the
\* new entry is over and has written nothing: no work branch of its own, no
\* file, no pull request, no ref.
FetchSteps == {"get_contents", "get_pr_file"}

C15_FetchFailureWritesNothing ==
    \A r \in Runs :
        run[r].failed_at \in FetchSteps =>
            /\ run[r].pc = "failed"
            /\ run[r].writes = <<>>
            /\ ~OwnsBranch(r)
            /\ pulls[r] = NoPull

C15_Witness ==
    /\ run[1].failed_at = "get_contents"
    /\ run[2].failed_at = "get_pr_file"
    /\ run[1].pc = "failed" /\ run[2].pc = "failed"

\* C17: a run whose logo download failed, by an exception or by an answer
\* with a non-success status, is over: it has written no logo file and made
\* no manifest commit, and its work branch is left in place.
Downloaded(r) == run[r].logo_content # NoFile
DownloadFailed(r) ==
    \/ run[r].failed_at = "logo_download"
    \/ Downloaded(r) /\ ~run[r].logo_content.ok

C17_FailedDownloadAborts ==
    \A r \in Runs :
        DownloadFailed(r) =>
            /\ run[r].pc = "failed"
            /\ ~Wrote(r, "logo_write")
            /\ ~Wrote(r, "update_file")
            /\ branches[run[r].new_branch].exists

\* C18: the logo write of a run that found the file on the default branch is
\* an update with that file's sha and a message whose verb is "Update"; the
\* logo write of a run that found no file is a create with the verb "Create".
C18_LogoVerbFollowsProbe ==
    \A r \in Runs :
        Wrote(r, "logo_write") =>
            IF run[r].logo_flag
            THEN /\ run[r].logo_file_sha # Sha(NoFile)
                 /\ run[r].logo_message[1] = "Update"
            ELSE run[r].logo_message[1] = "Create"

\* C19: a run of which a step failed is over: no later step of it is
\* executed.  The steps that can fail are the remote calls, the logo
\* download and the logo probe among them.
\* A step of run r that failed: a call that raised, a download answered
\* with a non-success status, a probe that did not return the file the
\* default branch holds.
RaisedNow(r) == run[r].failed_at = "none" /\ run'[r].failed_at # "none"
DownloadFailedNow(r) ==
    /\ run[r].pc = "logo_download" /\ run'[r].pc # "logo_download"
    /\ ~run'[r].logo_content.ok
ProbeFailedNow(r) ==
    /\ run[r].pc = "logo_probe" /\ run'[r].pc # "logo_probe"
    /\ main.logos[logo_path(r)] # NoFile
    /\ ~run'[r].logo_flag
StepFailedNow(r) == RaisedNow(r) \/ DownloadFailedNow(r) \/ ProbeFailedNow(r)

C19_FailFast ==
    [][\A r \in Runs : StepFailedNow(r) => run'[r].pc = "failed"]_vars

\* C20: the default branch changes only by the step of a run that merges
\* its pull request: the logo write and the manifest commit leave it as it
\* is, and so does a run that ends before its merge.
C20_OnlyMergeChangesDefault ==
    [][main' # main => \E r \in Runs : MergedNow(r)]_vars

C20_Witness ==
    /\ run[1].pc = "failed" /\ run[1].failed_at = "merge"
    /\ Wrote(1, "logo_write") /\ Wrote(1, "update_file")
    /\ branches[run[1].new_branch].head # main
    /\ main = run[1].source_sha
    /\ run[2].pc = "idle"

\* C21: no two runs derive the same work branch name, and the branch
\* creation of a run is never refused because the name is taken.
Branched(r) == run[r].new_branch # 0

C21_BranchNamesUnique ==
    \A r, q \in Runs :
        /\ (r # q /\ Branched(r) /\ Branched(q)) =>
              run[r].new_branch # run[q].new_branch
        /\ run[r].failed_at = "create_git_ref" => ~run[r].rejected

\* C22: the Logo of a run's new entry is set only after the run's logo
\* write, and names the path {Id}/{logo_name} on the default branch; and
\* every entry of the default-branch registry that has a Logo names a path
\* at which the default branch holds a file.
HasLogo(entry) == entry.Logo # NoLogo

C22_LogoExistsOnDefault ==
    /\ \A r \in Runs :
          HasLogo(run[r].plugin_json) =>
              /\ Wrote(r, "logo_write")
              /\ run[r].plugin_json.Logo.branch = source_branch
              /\ run[r].plugin_json.Logo.path = logo_path(r)
    /\ \A i \in 1..Len(main.reg) :
          HasLogo(main.reg[i]) =>
              /\ main.reg[i].Logo.branch = source_branch
              /\ main.logos[main.reg[i].Logo.path] # NoFile

C22_Witness ==
    /\ run[1].pc = "done" /\ HasLogo(run[1].plugin_json)
    /\ \E i \in 1..Len(main.reg) :
          /\ main.reg[i] = run[1].plugin_json
          /\ main.logos[main.reg[i].Logo.path] = run[1].logo_content
    /\ run[2].pc = "logo_write" /\ ~HasLogo(run[2].plugin_json)

\* C23: the work branches that exist are exactly those of the runs that
\* have created their branch and not deleted it; a run creates at most one
\* ref, opens at most one pull request and merges at most one; and a branch
\* left by a run that is over is the branch of a run that failed after it
\* had created it.
Count(r, step) ==
    Cardinality({i \in 1..Len(run[r].writes) : run[r].writes[i] = step})
HoldsBranch(r) == Wrote(r, "create_git_ref") /\ ~Wrote(r, "delete")
Over(r) == run[r].pc \in {"done", "failed", "skipped"}

C23_BranchesAreLiveRuns ==
    /\ {t \in Times : branches[t].exists} =
          {run[r].new_branch : r \in {q \in Runs : HoldsBranch(q)}}
    /\ \A r \in Runs :
          /\ Count(r, "create_git_ref") <= 1
          /\ Count(r, "create_pull") <= 1
          /\ Count(r, "merge") <= 1
          /\ HoldsBranch(r) => branches[run[r].new_branch].owner = r
          /\ (HoldsBranch(r) /\ Over(r)) => run[r].pc = "failed"

C23_Witness ==
    /\ run[1].pc = "failed" /\ run[1].failed_at = "create_pull"
    /\ run[2].pc = "done"
    /\ {t \in Times : branches[t].exists} = {run[1].new_branch}
    /\ run[1].new_branch # run[2].new_branch

\* ------------------------------------------------- classifier claims
IsImage(asset) == StartsWithImage(asset.content_type)
IsNamedManifest(asset) == asset.name = "plugin.json"
Indices(assets, P(_)) == {i \in 1..Len(assets) : P(assets[i])}

\* Where an input asset went.
AsManifest(asset) == c_out.plugin_json_url = asset.browser_download_url
AsLogo(asset) ==
    /\ c_out.logo_url = asset.browser_download_url
    /\ c_out.logo_name = asset.name
AsPlain(asset) ==
    \E k \in 1..Len(c_out.new_assets) : c_out.new_assets[k] = ReducedAsset(asset)
Outputs(asset) ==
    (IF AsManifest(asset) THEN 1 ELSE 0) + (IF AsLogo(asset) THEN 1 ELSE 0)
        + Cardinality({k \in 1..Len(c_out.new_assets) :
                         c_out.new_assets[k] = ReducedAsset(asset)})

\* C11: for an asset list with exactly one asset named plugin.json and at
\* most one image-typed asset, every input asset is in exactly one of the
\* manifest pointer, the logo and plain_assets, and plain_assets holds
\* nothing else.
OneManifestAtMostOneImage ==
    /\ Cardinality(Indices(c_assets, IsNamedManifest)) = 1
    /\ Cardinality(Indices(c_assets, IsImage)) <= 1

C11_Partition ==
    (c_pc = 1 /\ OneManifestAtMostOneImage) =>
        /\ \A i \in 1..Len(c_assets) : Outputs(c_assets[i]) = 1
        /\ Len(c_out.new_assets) = Cardinality(Indices(c_assets, AsPlain))

C11_Witness ==
    /\ c_pc = 1
    /\ OneManifestAtMostOneImage
    /\ Len(c_assets) = 3
    /\ c_out.plugin_json_url # None
    /\ c_out.logo_url # None
    /\ Len(c_out.new_assets) = 1

\* C12: the logo is the first asset, in input order, whose content type
\* begins with image/, and the manifest source is the first asset named
\* plugin.json, for every asset list.
First(S) == CHOOSE i \in S : \A j \in S : i <= j

C12_FirstMatchWins ==
    c_pc = 1 =>
        LET images == Indices(c_assets, IsImage)
            named == Indices(c_assets, IsNamedManifest)
        IN
        /\ images # {} => AsLogo(c_assets[First(images)])
        /\ images = {} => c_out.logo_url = None
        /\ named # {} => AsManifest(c_assets[First(named)])
        /\ named = {} => c_out.plugin_json_url = None

\* C13: plain_assets is, in input order, the reduced form of every input
\* asset that is neither the chosen manifest source nor the chosen logo.
Reduce(assets) == [i \in 1..Len(assets) |-> ReducedAsset(assets[i])]
NotChosen(asset) == ~AsManifest(asset) /\ ~AsLogo(asset)

C13_RestIsPlain ==
    c_pc = 1 => c_out.new_assets = Reduce(SelectSeq(c_assets, NotChosen))

====
